---- MODULE Spec2Model ----
(***************************************************************************)
(* State-machine model of the corolaria API layer: the authentication      *)
(* endpoints (auth_endpoints.py), the authenticated chat and conversation  *)
(* endpoints (chat_endpoints.py), their unauthenticated variant            *)
(* (api_chat_endpoints.py), semantic search (api_search_endpoints.py,      *)
(* api_schema.py), the article endpoints (api_article_endpoints.py) and    *)
(* the stores they call.                                                   *)
(*                                                                         *)
(* The handlers are translated from the source.  The UserRepository, the   *)
(* ConversationRepository, the ConversationService, the token dependency,  *)
(* the chat service, the embedding provider and the retrieval adapter are  *)
(* collaborators of the handlers; they are modelled by the interfaces the  *)
(* design document gives for them (its section 6).                         *)
(*                                                                         *)
(* Spec: concurrent authenticated chat requests.  SpecRoutes: the          *)
(* authenticated routes around one chat request.  SpecVariants: the server *)
(* with either variant of the chat routes mounted.  SpecSearch: search     *)
(* requests.  SpecCalls: one chat request and one search request, with     *)
(* their calls of the collaborators counted.  SpecGraph: the article       *)
(* versions endpoint and the formatting helpers over stored values.        *)
(***************************************************************************)
EXTENDS Integers, Sequences, FiniteSets, TLC

\* ------------------------------------------------------------------ bounds

\* Largest initial token balance (the users start with the same balance).
MaxTokens == 1
\* Number of authenticated chat requests that may be in flight or finished.
MaxReq == 2
\* The longest query and the most hits of one search.
MaxQueryLen == 3
MaxHits == 2
\* The most versions of one article and the longest stored date field.
MaxVersions == 3
MaxDateLen == 8
\* The longest stored context path.
MaxPathLen == 3

\* ------------------------------------------------------------ the universe

Users == {"u1", "u2"}
NoUser == "no_user"
\* Conversation ids; NoConv is an absent conversation_id in a request.
ConvIds == {"c1", "c2", "c3", "c9"}
NoConv == "no_conv"
\* Conversation ids are opaque and minted by the store: c9 is an id the store
\* never mints (what a client makes up), the others are minted in order.
NeverMinted == "c9"
Reqs == 1..MaxReq

\* The username and the password of each stored user (the store keeps a
\* hash; verify_password is modelled by comparison with the password).
username == [u \in Users |-> IF u = "u1" THEN "alice" ELSE "bob"]
password == [u \in Users |-> IF u = "u1" THEN "pw_alice" ELSE "pw_bob"]
\* What a client may submit to login.
LoginNames == {"alice", "bob", "mallory"}
LoginPasswords == {"pw_alice", "pw_bob", "pw_wrong"}

\* One chat turn appends the user's message and the assistant's answer.
Turn(u) == << [role |-> "user", content |-> u], [role |-> "assistant", content |-> u] >>

VARIABLES
    balance,      \* user -> available_tokens
    is_active,    \* user -> active flag
    tokens,       \* the token payloads (user ids) issued so far
    owner,        \* conversation id -> owning user, NoUser when no record
    msgs,         \* conversation id -> sequence of messages
    used,         \* conversation ids ever given to a conversation
    pc,           \* chat request -> position in the handler
    req,          \* chat request -> [user, cid] of the request
    balRead,      \* chat request -> the balance read at its start
    achatCalls,   \* chat request -> number of invocations of achat
    consumeCalls, \* chat request -> number of invocations of consume_tokens
    lookups,      \* chat request -> number of owner lookups
    ownerSeen,    \* chat request -> the owner its lookup returned
    deducted,     \* chat request -> tokens taken from its caller for it
    result,       \* chat request -> what achat returned, or how it ended
    resp,         \* chat request -> the response, once it has ended
    balance0,     \* user -> the balance at the start (never changes)
    require_auth, \* which variant of the chat routes is mounted (never changes)
    stored,       \* what the graph store holds for the article request in hand
    last          \* the last call of a non-chat endpoint and its response

vars == << balance, is_active, tokens, owner, msgs, used, pc, req, balRead,
           achatCalls, consumeCalls, lookups, ownerSeen, deducted, result,
           resp, balance0, require_auth, stored, last >>

store == << balance, is_active, owner, msgs, used >>
chatVars == << pc, req, balRead, achatCalls, consumeCalls, lookups, ownerSeen,
               deducted, result, resp >>

\* ---------------------------------------------------------------- responses

NoResp == [status |-> 0]
HttpError(code, tag, message) == [status |-> code, error |-> tag, message |-> message]
\* What the framework answers when an exception leaves a handler.
UnhandledError == [status |-> 500, error |-> "Internal Server Error"]

NotFoundMessage(cid) == << "Conversation", cid, "not found" >>
ConversationNotFound(cid) == HttpError(404, "ConversationNotFound", NotFoundMessage(cid))

\* ------------------------------------------------------------ UserRepository

\* get_by_username: the user with that username, NoUser when there is none.
get_by_username(name) ==
    IF \E u \in Users : username[u] = name
    THEN CHOOSE u \in Users : username[u] = name
    ELSE NoUser

\* verify_password(user, password)
verify_password(u, pw) == password[u] = pw

\* get_token_balance(user_id)
get_token_balance(u) == balance[u]

\* consume_tokens(user_id, amount): the balance after an atomic decrement.
consume_tokens(u, amount) == [balance EXCEPT ![u] = @ - amount]

\* ---------------------------------------------------- ConversationRepository

\* get_conversation_user_id(conversation_id)
get_conversation_user_id(cid) == IF cid \in ConvIds THEN owner[cid] ELSE NoUser

\* get_conversation(conversation_id, user_id) over a store (own, ms): the
\* conversation when it exists and belongs to user_id, "none" otherwise.
repo_get_conversation(cid, u, own, ms) ==
    IF cid \in ConvIds /\ own[cid] = u
    THEN [found |-> TRUE, id |-> cid, messages |-> ms[cid]]
    ELSE [found |-> FALSE]

\* delete_conversation(conversation_id, user_id): whether a row was deleted.
repo_delete_succeeds(cid, u) == cid \in ConvIds /\ owner[cid] = u

\* clear_conversation(conversation_id, user_id): whether a row was cleared.
repo_clear_succeeds(cid, u) == cid \in ConvIds /\ owner[cid] = u

\* ------------------------------------------------------------------- auth

\* get_current_user_from_token: the callers that hold a valid token.
Authenticated == tokens

\* login with a user that was not found under the wrong message.
login_response_leaky(name, pw) ==
    LET user == get_by_username(name) IN
    IF user = NoUser
    THEN HttpError(401, "Unauthorized", "User not found")
    ELSE IF ~ verify_password(user, pw)
    THEN HttpError(401, "Unauthorized", "Invalid username or password")
    ELSE IF ~ is_active[user]
    THEN HttpError(401, "Unauthorized", "Account is disabled")
    ELSE [status |-> 200, access_token |-> user, token_type |-> "bearer",
          user_id |-> user, username |-> username[user],
          available_tokens |-> balance[user]]

\* login that does not look at the active flag.
login_response_no_active(name, pw) ==
    LET user == get_by_username(name) IN
    IF user = NoUser
    THEN HttpError(401, "Unauthorized", "Invalid username or password")
    ELSE IF ~ verify_password(user, pw)
    THEN HttpError(401, "Unauthorized", "Invalid username or password")
    ELSE [status |-> 200, access_token |-> user, token_type |-> "bearer",
          user_id |-> user, username |-> username[user],
          available_tokens |-> balance[user]]

\* login that reports a disabled account before it verifies the password.
login_response_active_first(name, pw) ==
    LET user == get_by_username(name) IN
    IF user = NoUser
    THEN HttpError(401, "Unauthorized", "Invalid username or password")
    ELSE IF ~ is_active[user]
    THEN HttpError(401, "Unauthorized", "Account is disabled")
    ELSE IF ~ verify_password(user, pw)
    THEN HttpError(401, "Unauthorized", "Invalid username or password")
    ELSE [status |-> 200, access_token |-> user, token_type |-> "bearer",
          user_id |-> user, username |-> username[user],
          available_tokens |-> balance[user]]

\* The response of login(username, password); access_token is the payload
\* (the user id) create_access_token was called with.
login_response(name, pw) ==
    LET user == get_by_username(name) IN
    IF user = NoUser
    THEN HttpError(401, "Unauthorized", "Invalid username or password")
    ELSE IF ~ verify_password(user, pw)
    THEN HttpError(401, "Unauthorized", "Invalid username or password")
    ELSE IF ~ is_active[user]
    THEN HttpError(401, "Unauthorized", "Account is disabled")
    ELSE [status |-> 200, access_token |-> user, token_type |-> "bearer",
          user_id |-> user, username |-> username[user],
          available_tokens |-> balance[user]]

\* POST /auth/login
login(name, pw) ==
    LET r == login_response(name, pw) IN
    /\ tokens' = IF r.status = 200 THEN tokens \cup {r.access_token} ELSE tokens
    /\ last' = [op |-> "login", name |-> name, pw |-> pw, resp |-> r,
                tokens_before |-> tokens, tokens_after |-> tokens']
    /\ UNCHANGED << store, chatVars, balance0, require_auth, stored >>

\* ------------------------------------------------------------ GET /auth/me

\* A user id that no longer resolves to a user of the store.
Removed == "u0"

\* The tokens issued to users the store has since lost: still valid, so the
\* token dependency lets their holder in.
StaleTokens == {Removed}

\* get_by_id(user_id): the user with that id, NoUser when there is none.
get_by_id(uid) == IF uid \in Users THEN uid ELSE NoUser

\* get_current_user that turns an inactive user away, as login does.
get_current_user_response_active_only(uid, bal) ==
    LET user == get_by_id(uid) IN
    IF user = NoUser
    THEN HttpError(401, "Unauthorized", "User not found")
    ELSE IF ~ is_active[user]
    THEN HttpError(401, "Unauthorized", "Account is disabled")
    ELSE [status |-> 200, id |-> user, username |-> username[user],
          available_tokens |-> bal[user]]

\* The response of get_current_user without the test for a missing user:
\* reading user.id of None raises, and the framework answers 500.
get_current_user_response_unchecked(uid, bal) ==
    LET user == get_by_id(uid) IN
    IF user = NoUser
    THEN UnhandledError
    ELSE [status |-> 200, id |-> user, username |-> username[user],
          available_tokens |-> bal[user]]

\* The response of get_current_user for the token payload's user id over the
\* balances bal.
get_current_user_response(uid, bal) ==
    LET user == get_by_id(uid) IN
    IF user = NoUser
    THEN HttpError(401, "Unauthorized", "User not found")
    ELSE [status |-> 200, id |-> user, username |-> username[user],
          available_tokens |-> bal[user]]

\* GET /auth/me
get_current_user(uid) ==
    /\ uid \in Authenticated \cup StaleTokens
    /\ last' = [op |-> "me", user |-> uid,
                resp |-> get_current_user_response(uid, balance)]
    /\ UNCHANGED << store, tokens, chatVars, balance0, require_auth, stored >>

\* ------------------------------------------------------ conversation routes

\* The ids a client can name: the ids it has seen, and a made-up one.
Nameable == used \cup {NeverMinted}

\* get_conversation that looks the conversation up without the caller's id,
\* as the unauthenticated route does.
get_conversation_response_unscoped(cid, u, own, ms) ==
    IF ~ (cid \in ConvIds /\ own[cid] # NoUser)
    THEN ConversationNotFound(cid)
    ELSE [status |-> 200, id |-> cid, messages |-> ms[cid]]

\* The response of get_conversation(conversation_id) for caller u over a
\* store (own, ms).
get_conversation_response(cid, u, own, ms) ==
    LET conversation == repo_get_conversation(cid, u, own, ms) IN
    IF ~ conversation.found
    THEN ConversationNotFound(cid)
    ELSE [status |-> 200, id |-> conversation.id,
          messages |-> conversation.messages]

\* GET /chat/{conversation_id}
get_conversation(u, cid) ==
    /\ u \in Authenticated
    /\ last' = [op |-> "get", user |-> u, cid |-> cid,
                resp |-> get_conversation_response(cid, u, owner, msgs)]
    /\ UNCHANGED << store, tokens, chatVars, balance0, require_auth, stored >>

\* DELETE /chat/{conversation_id} that deletes without the caller's id, as
\* the unauthenticated route does.
delete_conversation_unscoped(u, cid) ==
    /\ u \in Authenticated
    /\ LET success == cid \in ConvIds /\ owner[cid] # NoUser IN
       /\ owner' = IF success THEN [owner EXCEPT ![cid] = NoUser] ELSE owner
       /\ msgs' = IF success THEN [msgs EXCEPT ![cid] = << >>] ELSE msgs
       /\ last' = [op |-> "delete", user |-> u, cid |-> cid,
                   resp |-> IF ~ success
                            THEN ConversationNotFound(cid)
                            ELSE [status |-> 200, success |-> TRUE,
                                  message |-> << "Conversation", cid, "deleted successfully" >>]]
    /\ UNCHANGED << balance, is_active, used, tokens, chatVars, balance0, require_auth, stored >>

\* DELETE /chat/{conversation_id} that answers 200 whatever the repository
\* returned.
delete_conversation_unchecked(u, cid) ==
    /\ u \in Authenticated
    /\ LET success == repo_delete_succeeds(cid, u) IN
       /\ owner' = IF success THEN [owner EXCEPT ![cid] = NoUser] ELSE owner
       /\ msgs' = IF success THEN [msgs EXCEPT ![cid] = << >>] ELSE msgs
       /\ last' = [op |-> "delete", user |-> u, cid |-> cid,
                   resp |-> [status |-> 200, success |-> TRUE,
                             message |-> << "Conversation", cid, "deleted successfully" >>]]
    /\ UNCHANGED << balance, is_active, used, tokens, chatVars, balance0, require_auth, stored >>

\* DELETE /chat/{conversation_id}
delete_conversation(u, cid) ==
    /\ u \in Authenticated
    /\ LET success == repo_delete_succeeds(cid, u) IN
       /\ owner' = IF success THEN [owner EXCEPT ![cid] = NoUser] ELSE owner
       /\ msgs' = IF success THEN [msgs EXCEPT ![cid] = << >>] ELSE msgs
       /\ last' = [op |-> "delete", user |-> u, cid |-> cid,
                   resp |-> IF ~ success
                            THEN ConversationNotFound(cid)
                            ELSE [status |-> 200, success |-> TRUE,
                                  message |-> << "Conversation", cid, "deleted successfully" >>]]
    /\ UNCHANGED << balance, is_active, used, tokens, chatVars, balance0, require_auth, stored >>

\* POST /chat/{conversation_id}/clear that answers 200 whatever the
\* repository returned.
clear_conversation_unchecked(u, cid) ==
    /\ u \in Authenticated
    /\ LET success == repo_clear_succeeds(cid, u) IN
       /\ msgs' = IF success THEN [msgs EXCEPT ![cid] = << >>] ELSE msgs
       /\ last' = [op |-> "clear", user |-> u, cid |-> cid,
                   resp |-> [status |-> 200, success |-> TRUE,
                             message |-> << "Conversation", cid, "cleared successfully" >>]]
    /\ UNCHANGED << balance, is_active, owner, used, tokens, chatVars, balance0, require_auth, stored >>

\* POST /chat/{conversation_id}/clear
clear_conversation(u, cid) ==
    /\ u \in Authenticated
    /\ LET success == repo_clear_succeeds(cid, u) IN
       /\ msgs' = IF success THEN [msgs EXCEPT ![cid] = << >>] ELSE msgs
       /\ last' = [op |-> "clear", user |-> u, cid |-> cid,
                   resp |-> IF ~ success
                            THEN ConversationNotFound(cid)
                            ELSE [status |-> 200, success |-> TRUE,
                                  message |-> << "Conversation", cid, "cleared successfully" >>]]
    /\ UNCHANGED << balance, is_active, owner, used, tokens, chatVars, balance0, require_auth, stored >>

\* ------------------------------------------------------ GET /conversations

\* The order in which the store lists conversations.
ConvOrder == << "c1", "c2", "c3", "c9" >>

\* The row the store lists for conversation c.
ConversationRow(c, ms) ==
    [id |-> c, message_count |-> Len(ms[c]),
     preview |-> IF ms[c] = << >> THEN "" ELSE ms[c][1].content]

\* Every conversation of the store, in the store's order.
repo_list_all(own, ms) ==
    LET HasRecord(c) == own[c] # NoUser
        ids == SelectSeq(ConvOrder, HasRecord) IN
    [i \in 1..Len(ids) |-> ConversationRow(ids[i], ms)]

\* list_conversations(user_id) over a store (own, ms): the conversations of
\* user_id, in the store's order.
repo_list_conversations(u, own, ms) ==
    LET Mine(c) == own[c] = u
        ids == SelectSeq(ConvOrder, Mine) IN
    [i \in 1..Len(ids) |-> ConversationRow(ids[i], ms)]

\* The summary list_conversations builds from one row.
ConversationSummary(c) ==
    [id |-> c.id, message_count |-> c.message_count, preview |-> c.preview]

\* The response of list_conversations that asks the store for every
\* conversation, not for those of the caller.
list_conversations_response_all(u, own, ms) ==
    LET conversations == repo_list_all(own, ms) IN
    [status |-> 200,
     conversations |-> [i \in 1..Len(conversations) |->
                            ConversationSummary(conversations[i])],
     total |-> Len(conversations)]

\* The response of list_conversations for caller u over a store (own, ms).
list_conversations_response(u, own, ms) ==
    LET conversations == repo_list_conversations(u, own, ms) IN
    [status |-> 200,
     conversations |-> [i \in 1..Len(conversations) |->
                            ConversationSummary(conversations[i])],
     total |-> Len(conversations)]

\* GET /conversations
list_conversations(u) ==
    /\ u \in Authenticated
    /\ last' = [op |-> "list", user |-> u,
                resp |-> list_conversations_response(u, owner, msgs)]
    /\ UNCHANGED << store, tokens, chatVars, balance0, require_auth, stored >>

\* --------------------------------------------------------------- POST /chat

\* The balance test of chat that lets a balance of 0 through.
chat_balance_rejects_strict(bal) == bal < 0

\* chat: "if balance <= 0" raises 402.
chat_balance_rejects(bal) == bal <= 0

\* The ownership test with the comparison left out: every id passes.
chat_owner_rejects_nobody(cid, o, u) == FALSE

\* chat: "if request.conversation_id" and "if owner and owner != user_id".
chat_owner_rejects(cid, o, u) == cid # NoConv /\ o # NoUser /\ o # u

InsufficientTokens ==
    HttpError(402, "InsufficientTokens",
              "You have no remaining API tokens. Please contact an administrator.")

ChatProcessingError(e) ==
    [status |-> 500, error |-> "ChatProcessingError",
     message |-> "Failed to process chat message", details |-> e]

\* The descriptions str(e) of the exceptions achat raises.
Failures == {"retrieval failed", "generation failed"}

\* chat with the ownership test placed before the balance test: a request
\* that names another user's conversation is answered 404 before its balance
\* is looked at.
chat_check_balance_owner_first(r, u, cid) ==
    /\ pc[r] = "idle"
    /\ (IF r = 1 THEN TRUE ELSE pc[r - 1] # "idle")
    /\ u \in Authenticated
    /\ req' = [req EXCEPT ![r] = [user |-> u, cid |-> cid]]
    /\ balRead' = [balRead EXCEPT ![r] = get_token_balance(u)]
    /\ lookups' = [lookups EXCEPT ![r] = IF cid # NoConv THEN @ + 1 ELSE @]
    /\ ownerSeen' = [ownerSeen EXCEPT ![r] =
           IF cid # NoConv THEN get_conversation_user_id(cid) ELSE @]
    /\ IF chat_owner_rejects(cid, get_conversation_user_id(cid), u)
       THEN /\ pc' = [pc EXCEPT ![r] = "done"]
            /\ resp' = [resp EXCEPT ![r] = ConversationNotFound(cid)]
       ELSE IF chat_balance_rejects(get_token_balance(u))
       THEN /\ pc' = [pc EXCEPT ![r] = "done"]
            /\ resp' = [resp EXCEPT ![r] = InsufficientTokens]
       ELSE /\ pc' = [pc EXCEPT ![r] = "balance_ok"]
            /\ UNCHANGED resp
    /\ UNCHANGED << store, tokens, achatCalls, consumeCalls, deducted, result,
                    balance0, require_auth, stored, last >>

\* chat, up to the balance test: the request arrives with a valid token and
\* the balance is read.
chat_check_balance(r, u, cid) ==
    /\ pc[r] = "idle"
    /\ (IF r = 1 THEN TRUE ELSE pc[r - 1] # "idle")
    /\ u \in Authenticated
    /\ req' = [req EXCEPT ![r] = [user |-> u, cid |-> cid]]
    /\ balRead' = [balRead EXCEPT ![r] = get_token_balance(u)]
    /\ IF chat_balance_rejects(get_token_balance(u))
       THEN /\ pc' = [pc EXCEPT ![r] = "done"]
            /\ resp' = [resp EXCEPT ![r] = InsufficientTokens]
       ELSE /\ pc' = [pc EXCEPT ![r] = "balance_ok"]
            /\ UNCHANGED resp
    /\ UNCHANGED << store, tokens, achatCalls, consumeCalls, lookups, ownerSeen,
                    deducted, result, balance0, require_auth, stored, last >>

\* chat, the ownership test; a request that passes it calls achat and waits.
chat_check_owner(r) ==
    /\ pc[r] = "balance_ok"
    /\ LET u == req[r].user
           cid == req[r].cid
           o == get_conversation_user_id(cid) IN
       /\ lookups' = [lookups EXCEPT ![r] = IF cid # NoConv THEN @ + 1 ELSE @]
       /\ ownerSeen' = [ownerSeen EXCEPT ![r] = IF cid # NoConv THEN o ELSE @]
       /\ IF chat_owner_rejects(cid, o, u)
          THEN /\ pc' = [pc EXCEPT ![r] = "done"]
               /\ resp' = [resp EXCEPT ![r] = ConversationNotFound(cid)]
               /\ UNCHANGED achatCalls
          ELSE /\ pc' = [pc EXCEPT ![r] = "awaiting"]
               /\ achatCalls' = [achatCalls EXCEPT ![r] = @ + 1]
               /\ UNCHANGED resp
    /\ UNCHANGED << store, tokens, req, balRead, consumeCalls, deducted, result,
                    balance0, require_auth, stored, last >>

\* The conversation id the store mints next.
FreshIds == ConvIds \ (used \cup {NeverMinted})

\* The chat service: achat(query, conversation_id, top_k, user_id) returns.
\* It appends the turn to the conversation named when that has a record, and
\* to a newly created conversation of user_id otherwise.  shape tells whether
\* the citations it returns fit CitationResponse.
achat_returns(r, shape) ==
    /\ pc[r] = "awaiting"
    /\ LET u == req[r].user
           cid == req[r].cid
           exists == cid \in ConvIds /\ owner[cid] # NoUser IN
       /\ (IF exists THEN TRUE ELSE FreshIds # {})
       /\ LET target == IF exists THEN cid ELSE CHOOSE c \in FreshIds : TRUE IN
          /\ owner' = IF exists THEN owner ELSE [owner EXCEPT ![target] = u]
          /\ msgs' = [msgs EXCEPT ![target] = @ \o Turn(u)]
          /\ used' = used \cup {target}
          /\ result' = [result EXCEPT ![r] =
                 [kind |-> "returned", conversation_id |-> target,
                  citations_ok |-> shape]]
    /\ pc' = [pc EXCEPT ![r] = "returned"]
    /\ UNCHANGED << balance, is_active, tokens, req, balRead, achatCalls,
                    consumeCalls, lookups, ownerSeen, deducted, resp, balance0, require_auth, stored,
                    last >>

\* achat raises, and the handler takes a token all the same.
chat_except_charged(r) ==
    /\ pc[r] = "awaiting"
    /\ balance' = consume_tokens(req[r].user, 1)
    /\ \E e \in Failures :
          /\ result' = [result EXCEPT ![r] = [kind |-> "raised", error |-> e]]
          /\ resp' = [resp EXCEPT ![r] = ChatProcessingError(e)]
    /\ pc' = [pc EXCEPT ![r] = "done"]
    /\ UNCHANGED << is_active, owner, msgs, used, tokens, req, balRead,
                    achatCalls, consumeCalls, lookups, ownerSeen, deducted,
                    balance0, require_auth, stored, last >>

\* achat raises and chat has no except clause: the exception leaves the
\* handler as it is and the framework answers a bare 500.
chat_except_escapes(r) ==
    /\ pc[r] = "awaiting"
    /\ \E e \in Failures :
          /\ result' = [result EXCEPT ![r] = [kind |-> "raised", error |-> e]]
          /\ resp' = [resp EXCEPT ![r] = UnhandledError]
    /\ pc' = [pc EXCEPT ![r] = "done"]
    /\ UNCHANGED << store, tokens, req, balRead, achatCalls, consumeCalls,
                    lookups, ownerSeen, deducted, balance0, require_auth, stored, last >>

\* achat raises and the handler calls it again.
chat_except_retry(r) ==
    /\ pc[r] = "awaiting"
    /\ achatCalls' = [achatCalls EXCEPT ![r] = @ + 1]
    /\ UNCHANGED << store, tokens, pc, req, balRead, consumeCalls, lookups,
                    ownerSeen, deducted, result, resp, balance0, require_auth,
                    stored, last >>

\* achat raises e: the except clause of chat answers 500 with str(e).
chat_except(r) ==
    /\ pc[r] = "awaiting"
    /\ \E e \in Failures :
          /\ result' = [result EXCEPT ![r] = [kind |-> "raised", error |-> e]]
          /\ resp' = [resp EXCEPT ![r] = ChatProcessingError(e)]
    /\ pc' = [pc EXCEPT ![r] = "done"]
    /\ UNCHANGED << store, tokens, req, balRead, achatCalls, consumeCalls,
                    lookups, ownerSeen, deducted, balance0, require_auth, stored, last >>

\* chat after achat has returned: consume_tokens(user_id, 1), then the
\* citations are converted and the response is returned; a conversion that
\* raises is caught by the same except clause.
chat_consume_and_respond(r) ==
    /\ pc[r] = "returned"
    /\ LET u == req[r].user IN
       /\ balance' = consume_tokens(u, 1)
       /\ consumeCalls' = [consumeCalls EXCEPT ![r] = @ + 1]
       /\ deducted' = [deducted EXCEPT ![r] = @ + (balance[u] - balance'[u])]
       /\ resp' = [resp EXCEPT ![r] =
              IF result[r].citations_ok
              THEN [status |-> 200, conversation_id |-> result[r].conversation_id]
              ELSE ChatProcessingError("citations")]
    /\ pc' = [pc EXCEPT ![r] = "done"]
    /\ UNCHANGED << is_active, owner, msgs, used, tokens, req, balRead,
                    achatCalls, lookups, ownerSeen, result, balance0, require_auth, stored, last >>

\* ------------------------------------------- the routes without a caller

\* The user id of a conversation that achat created for no user.
Anonymous == "anonymous"

\* ConversationService.get_conversation(conversation_id): the record with
\* that id, whoever created it; "none" when there is none.
service_get_conversation(cid, own, ms) ==
    IF cid \in ConvIds /\ own[cid] # NoUser
    THEN [found |-> TRUE, id |-> cid, messages |-> ms[cid]]
    ELSE [found |-> FALSE]

\* ConversationService.delete_conversation and clear_conversation report
\* whether a record with that id existed.
service_has(cid) == cid \in ConvIds /\ owner[cid] # NoUser

\* The 404 of the unauthenticated GET /chat/{conversation_id}.
ConversationNotFoundOrExpired(cid) ==
    HttpError(404, "ConversationNotFound",
              << "Conversation", cid, "not found or expired" >>)

\* GET /chat/{conversation_id}, unauthenticated
api_get_conversation(cid) ==
    /\ ~ require_auth
    /\ LET conversation == service_get_conversation(cid, owner, msgs) IN
       last' = [op |-> "get", user |-> NoUser, cid |-> cid,
                resp |-> IF ~ conversation.found
                         THEN ConversationNotFoundOrExpired(cid)
                         ELSE [status |-> 200, id |-> conversation.id,
                               messages |-> conversation.messages]]
    /\ UNCHANGED << store, tokens, chatVars, balance0, require_auth, stored >>

\* DELETE /chat/{conversation_id}, unauthenticated
api_delete_conversation(cid) ==
    /\ ~ require_auth
    /\ LET success == service_has(cid) IN
       /\ owner' = IF success THEN [owner EXCEPT ![cid] = NoUser] ELSE owner
       /\ msgs' = IF success THEN [msgs EXCEPT ![cid] = << >>] ELSE msgs
       /\ last' = [op |-> "delete", user |-> NoUser, cid |-> cid,
                   resp |-> IF ~ success
                            THEN ConversationNotFound(cid)
                            ELSE [status |-> 200, success |-> TRUE,
                                  message |-> << "Conversation", cid, "deleted successfully" >>]]
    /\ UNCHANGED << balance, is_active, used, tokens, chatVars, balance0, require_auth, stored >>

\* POST /chat/{conversation_id}/clear, unauthenticated
api_clear_conversation(cid) ==
    /\ ~ require_auth
    /\ LET success == service_has(cid) IN
       /\ msgs' = IF success THEN [msgs EXCEPT ![cid] = << >>] ELSE msgs
       /\ last' = [op |-> "clear", user |-> NoUser, cid |-> cid,
                   resp |-> IF ~ success
                            THEN ConversationNotFound(cid)
                            ELSE [status |-> 200, success |-> TRUE,
                                  message |-> << "Conversation", cid, "cleared successfully" >>]]
    /\ UNCHANGED << balance, is_active, owner, used, tokens, chatVars, balance0, require_auth, stored >>

\* The unauthenticated POST /chat with the ownership check of the
\* authenticated one: a conversation that has an owner is answered 404.
api_chat_call_owner_checked(r, cid) ==
    /\ ~ require_auth
    /\ pc[r] = "idle"
    /\ req' = [req EXCEPT ![r] = [user |-> NoUser, cid |-> cid]]
    /\ IF cid # NoConv /\ get_conversation_user_id(cid) # NoUser
       THEN /\ resp' = [resp EXCEPT ![r] = ConversationNotFound(cid)]
            /\ lookups' = [lookups EXCEPT ![r] = @ + 1]
            /\ pc' = [pc EXCEPT ![r] = "done"]
            /\ UNCHANGED achatCalls
       ELSE /\ achatCalls' = [achatCalls EXCEPT ![r] = @ + 1]
            /\ pc' = [pc EXCEPT ![r] = "api_awaiting"]
            /\ UNCHANGED << resp, lookups >>
    /\ UNCHANGED << store, tokens, balRead, consumeCalls, ownerSeen, deducted,
                    result, balance0, require_auth, stored, last >>

\* POST /chat, unauthenticated: the handler calls achat with the message and
\* the conversation id of the request, and nothing before it.
api_chat_call(r, cid) ==
    /\ ~ require_auth
    /\ pc[r] = "idle"
    /\ req' = [req EXCEPT ![r] = [user |-> NoUser, cid |-> cid]]
    /\ achatCalls' = [achatCalls EXCEPT ![r] = @ + 1]
    /\ pc' = [pc EXCEPT ![r] = "api_awaiting"]
    /\ UNCHANGED << store, tokens, balRead, consumeCalls, lookups, ownerSeen,
                    deducted, result, resp, balance0, require_auth, stored, last >>

\* achat(query, conversation_id, top_k) returns a result: as achat_returns,
\* a conversation it creates belonging to no user.
api_achat_returns(r, shape) ==
    /\ ~ require_auth
    /\ pc[r] = "api_awaiting"
    /\ LET cid == req[r].cid
           exists == cid \in ConvIds /\ owner[cid] # NoUser IN
       /\ (IF exists THEN TRUE ELSE FreshIds # {})
       /\ LET target == IF exists THEN cid ELSE CHOOSE c \in FreshIds : TRUE IN
          /\ owner' = IF exists THEN owner ELSE [owner EXCEPT ![target] = Anonymous]
          /\ msgs' = [msgs EXCEPT ![target] = @ \o Turn(Anonymous)]
          /\ used' = used \cup {target}
          /\ result' = [result EXCEPT ![r] =
                 [kind |-> "returned", conversation_id |-> target,
                  citations_ok |-> shape]]
    /\ pc' = [pc EXCEPT ![r] = "api_returned"]
    /\ UNCHANGED << balance, is_active, tokens, req, balRead, achatCalls,
                    consumeCalls, lookups, ownerSeen, deducted, resp, balance0,
                    require_auth, stored, last >>

\* achat raises e: the except clause of the unauthenticated chat answers 500
\* with str(e).
api_chat_except(r) ==
    /\ ~ require_auth
    /\ pc[r] = "api_awaiting"
    /\ \E e \in Failures :
          /\ result' = [result EXCEPT ![r] = [kind |-> "raised", error |-> e]]
          /\ resp' = [resp EXCEPT ![r] = ChatProcessingError(e)]
    /\ pc' = [pc EXCEPT ![r] = "done"]
    /\ UNCHANGED << store, tokens, req, balRead, achatCalls, consumeCalls,
                    lookups, ownerSeen, deducted, balance0, require_auth, stored, last >>

\* The unauthenticated chat after achat has returned: the citations are
\* converted and the response is returned; a conversion that raises is caught
\* by the same except clause.
api_chat_respond(r) ==
    /\ ~ require_auth
    /\ pc[r] = "api_returned"
    /\ resp' = [resp EXCEPT ![r] =
           IF result[r].citations_ok
           THEN [status |-> 200, conversation_id |-> result[r].conversation_id]
           ELSE ChatProcessingError("citations")]
    /\ pc' = [pc EXCEPT ![r] = "done"]
    /\ UNCHANGED << store, tokens, req, balRead, achatCalls, consumeCalls,
                    lookups, ownerSeen, deducted, result, balance0,
                    require_auth, stored, last >>

\* ------------------------------------------------------------ POST /search

\* A query is a sequence of characters.
Chars == {" ", "a"}

\* The sequences over S of length at most n.
SeqUpTo(S, n) == UNION {[1..k -> S] : k \in 0..n}

\* The queries a client may send.
Queries == SeqUpTo(Chars, MaxQueryLen)

RECURSIVE lstrip(_)
\* str.lstrip(): the leading whitespace removed.
lstrip(v) == IF v # << >> /\ Head(v) = " " THEN lstrip(Tail(v)) ELSE v

RECURSIVE rstrip(_)
\* str.rstrip(): the trailing whitespace removed.
rstrip(v) ==
    IF v # << >> /\ v[Len(v)] = " " THEN rstrip(SubSeq(v, 1, Len(v) - 1)) ELSE v

\* str.strip()
strip(v) == rstrip(lstrip(v))

\* A request that pydantic refuses.
ValidationError == [status |-> 422, error |-> "ValidationError"]

\* The validator query_not_empty with "if not v" for "if not v.strip()".
query_not_empty_untested(v) ==
    IF v = << >>
    THEN [ok |-> FALSE]
    ELSE [ok |-> TRUE, value |-> strip(v)]

\* SemanticSearchRequest.query_not_empty: "if not v.strip()" raises
\* ValueError, otherwise the value is v.strip().
query_not_empty(v) ==
    IF strip(v) = << >>
    THEN [ok |-> FALSE]
    ELSE [ok |-> TRUE, value |-> strip(v)]

\* SemanticSearchRequest.query: min_length=1, then the validator.
validate_query(raw) ==
    IF Len(raw) < 1 THEN [ok |-> FALSE] ELSE query_not_empty(raw)

\* The article_id of a raw hit: an int, a str, or None when the key is
\* missing.
IntId(n) == [t |-> "int", v |-> n]
StrId(n) == [t |-> "str", v |-> n]
NoId == [t |-> "none"]

\* The integer ids of the stored articles.
ArticleIds == {7, 12}

\* The raw hits vector_search may return.
Hits == {[article_id |-> a] :
            a \in {IntId(n) : n \in ArticleIds} \cup {StrId(7), NoId}}

\* The outcomes of get_embedding and of vector_search.
EmbeddingOutcomes == {"embedding", "raises"}
SearchOutcomes == {[kind |-> "raises"]} \cup
                  {[kind |-> "hits", raw_results |-> h] : h \in SeqUpTo(Hits, MaxHits)}

\* isinstance(article_id, int)
isinstance_int(a) == a.t = "int"

Digit(d) == CASE d = 0 -> "0" [] d = 1 -> "1" [] d = 2 -> "2" [] d = 3 -> "3"
              [] d = 4 -> "4" [] d = 5 -> "5" [] d = 6 -> "6" [] d = 7 -> "7"
              [] d = 8 -> "8" [] d = 9 -> "9"

RECURSIVE str_int(_)
\* str(n) of a non-negative int: its decimal digits.
str_int(n) == IF n < 10 THEN << Digit(n) >> ELSE str_int(n \div 10) \o << Digit(n % 10) >>

\* The exceptions raised inside the outer try of semantic_search.
HTTPException(code, tag, e) ==
    [type |-> "HTTPException",
     resp |-> [status |-> code, error |-> tag, details |-> e]]
TypeError == [type |-> "TypeError", resp |-> NoResp]

RECURSIVE article_results_reversed(_)
\* The loop over raw_results that puts each result in front of the list.
article_results_reversed(raw_results) ==
    IF raw_results = << >> THEN [raised |-> FALSE, results |-> << >>]
    ELSE LET hit == Head(raw_results)
             rest == article_results_reversed(Tail(raw_results)) IN
         IF ~ isinstance_int(hit.article_id) THEN [raised |-> TRUE]
         ELSE IF rest.raised THEN rest
         ELSE [raised |-> FALSE,
               results |-> rest.results \o
                           << [article_id |-> str_int(hit.article_id.v)] >>]

RECURSIVE article_results_skip_invalid(_)
\* The loop over raw_results that leaves out a hit whose article_id is not an
\* int and goes on with the next one.
article_results_skip_invalid(raw_results) ==
    IF raw_results = << >> THEN [raised |-> FALSE, results |-> << >>]
    ELSE LET hit == Head(raw_results)
             rest == article_results_skip_invalid(Tail(raw_results)) IN
         IF ~ isinstance_int(hit.article_id) THEN rest
         ELSE [raised |-> FALSE,
               results |-> << [article_id |-> str_int(hit.article_id.v)] >>
                           \o rest.results]

RECURSIVE article_results(_)
\* The loop over raw_results: TypeError at the first hit whose article_id is
\* not an int, otherwise one ArticleResult per hit, appended in order.
article_results(raw_results) ==
    IF raw_results = << >> THEN [raised |-> FALSE, results |-> << >>]
    ELSE LET hit == Head(raw_results)
             rest == article_results(Tail(raw_results)) IN
         IF ~ isinstance_int(hit.article_id) THEN [raised |-> TRUE]
         ELSE IF rest.raised THEN rest
         ELSE [raised |-> FALSE,
               results |-> << [article_id |-> str_int(hit.article_id.v)] >>
                           \o rest.results]

\* The except clauses of the outer try with "except HTTPException: raise"
\* left out: every exception is answered as InternalServerError.
search_outer_except_catch_all(exc) ==
    [status |-> 500, error |-> "InternalServerError", details |-> exc.type]

\* The except clauses of the outer try: an HTTPException is raised again as
\* it is, any other exception is answered 500 InternalServerError.
search_outer_except(exc) ==
    IF exc.type = "HTTPException"
    THEN exc.resp
    ELSE [status |-> 500, error |-> "InternalServerError", details |-> exc.type]

\* No search request is being handled.
SearchIdle == IF last.op = "search" THEN last.pc = "done" ELSE TRUE

\* A search request arrives and its body is validated; the handler runs only
\* for a body that passes.
semantic_search_validate(raw) ==
    /\ SearchIdle
    /\ LET v == validate_query(raw) IN
       last' = [op |-> "search", raw |-> raw, accepted |-> v.ok,
                query |-> IF v.ok THEN v.value ELSE << >>,
                pc |-> IF v.ok THEN "embedding" ELSE "done",
                embedCalls |-> 0, embedded |-> << >>, searchCalls |-> 0,
                raw_results |-> << >>,
                resp |-> IF v.ok THEN NoResp ELSE ValidationError]
    /\ UNCHANGED << store, tokens, chatVars, balance0, require_auth, stored >>

\* semantic_search: embedding_provider.get_embedding(request.query) and its
\* except clause.
semantic_search_embed(outcome) ==
    /\ last.op = "search" /\ last.pc = "embedding"
    /\ last' = [last EXCEPT
           !.embedCalls = @ + 1,
           !.embedded = last.query,
           !.pc = IF outcome = "raises" THEN "done" ELSE "searching",
           !.resp = IF outcome = "raises"
                    THEN search_outer_except(
                             HTTPException(500, "EmbeddingGenerationError", "get_embedding"))
                    ELSE @]
    /\ UNCHANGED << store, tokens, chatVars, balance0, require_auth, stored >>

\* semantic_search: adapter.vector_search(...) and its except clause.
semantic_search_vector_search(outcome) ==
    /\ last.op = "search" /\ last.pc = "searching"
    /\ last' = [last EXCEPT
           !.searchCalls = @ + 1,
           !.raw_results = IF outcome.kind = "raises" THEN @ ELSE outcome.raw_results,
           !.pc = IF outcome.kind = "raises" THEN "done" ELSE "mapping",
           !.resp = IF outcome.kind = "raises"
                    THEN search_outer_except(
                             HTTPException(500, "DatabaseError", "vector_search"))
                    ELSE @]
    /\ UNCHANGED << store, tokens, chatVars, balance0, require_auth, stored >>

\* semantic_search: the results are built and the response is returned.
semantic_search_respond ==
    /\ last.op = "search" /\ last.pc = "mapping"
    /\ LET a == article_results(last.raw_results) IN
       last' = [last EXCEPT
           !.pc = "done",
           !.resp = IF a.raised
                    THEN search_outer_except(TypeError)
                    ELSE [status |-> 200, query |-> last.query,
                          results |-> a.results,
                          total_results |-> Len(a.results)]]
    /\ UNCHANGED << store, tokens, chatVars, balance0, require_auth, stored >>

\* ------------------------------------------------- GET /article/{node_id}

\* An optional string field of a stored record: None, or a str.
None == [t |-> "none"]
Str(v) == [t |-> "str", v |-> v]

\* The characters of a stored date field.
DateChars == {"1", "x"}

\* The values a stored date field may have.
DateValues == {None} \cup {Str(v) : v \in SeqUpTo(DateChars, MaxDateLen)}

\* format_date that puts the day before the month.
format_date_day_first(date_str) ==
    IF date_str = None \/ date_str.v = << >> \/ Len(date_str.v) # 8
    THEN date_str
    ELSE Str(SubSeq(date_str.v, 1, 4) \o << "-" >> \o SubSeq(date_str.v, 7, 8)
             \o << "-" >> \o SubSeq(date_str.v, 5, 6))

\* format_date of api_article_endpoints.py: "if not date_str or
\* len(date_str) != 8: return date_str", otherwise year-month-day.
format_date(date_str) ==
    IF date_str = None \/ date_str.v = << >> \/ Len(date_str.v) # 8
    THEN date_str
    ELSE Str(SubSeq(date_str.v, 1, 4) \o << "-" >> \o SubSeq(date_str.v, 5, 6)
             \o << "-" >> \o SubSeq(date_str.v, 7, 8))

\* format_date of api_search_endpoints.py.
search_format_date(date_str) ==
    IF date_str = None \/ date_str.v = << >> \/ Len(date_str.v) # 8
    THEN date_str
    ELSE Str(SubSeq(date_str.v, 1, 4) \o << "-" >> \o SubSeq(date_str.v, 5, 6)
             \o << "-" >> \o SubSeq(date_str.v, 7, 8))

\* The validity_end of a stored version: absent, empty, or a date.
ValidityEnds == {None, Str(<< >>), Str(<< "1", "1", "1", "1", "1", "1", "1", "1" >>)}

\* The versions get_article_versions of the adapter may return.
Versions == {[article_id |-> n, validity_end |-> e] :
                n \in ArticleIds, e \in ValidityEnds}

ArticleNotFound == [status |-> 404, error |-> "ArticleNotFound"]

\* The response of get_article_versions with "not v.get('validity_end')" as
\* the test for the current version.
get_article_versions_response_falsy(versions) ==
    IF versions = << >>
    THEN ArticleNotFound
    ELSE [status |-> 200,
          versions |-> [i \in 1..Len(versions) |->
              [node_id |-> str_int(versions[i].article_id),
               fecha_caducidad |-> format_date(versions[i].validity_end),
               is_current_version |-> versions[i].validity_end = None
                                      \/ versions[i].validity_end.v = << >>]],
          total_versions |-> Len(versions)]

\* The response of get_article_versions for the versions the adapter
\* returned.
get_article_versions_response(versions) ==
    IF versions = << >>
    THEN ArticleNotFound
    ELSE [status |-> 200,
          versions |-> [i \in 1..Len(versions) |->
              [node_id |-> str_int(versions[i].article_id),
               fecha_caducidad |-> format_date(versions[i].validity_end),
               is_current_version |-> versions[i].validity_end = None]],
          total_versions |-> Len(versions)]

\* GET /article/{node_id}/versions
get_article_versions ==
    /\ stored.kind = "versions"
    /\ last' = [op |-> "versions",
                resp |-> get_article_versions_response(stored.versions)]
    /\ UNCHANGED << store, tokens, chatVars, balance0, require_auth, stored >>

\* format_date of both modules, called with a stored date field.
format_date_call ==
    /\ stored.kind = "date"
    /\ last' = [op |-> "format_date",
                article |-> format_date(stored.date_str),
                search |-> search_format_date(stored.date_str)]
    /\ UNCHANGED << store, tokens, chatVars, balance0, require_auth, stored >>

\* ----------------------------------------------------- format_context_path

\* The cased letters of the model, lower case and upper case in step.
LowerLetters == << "c", "e", "i", "n", "o", "r", "s", "t" >>
UpperLetters == << "C", "E", "I", "N", "O", "R", "S", "T" >>

islower_char(ch) == \E i \in 1..Len(LowerLetters) : LowerLetters[i] = ch
isupper_char(ch) == \E i \in 1..Len(UpperLetters) : UpperLetters[i] = ch

upper_char(ch) ==
    IF islower_char(ch)
    THEN UpperLetters[CHOOSE i \in 1..Len(LowerLetters) : LowerLetters[i] = ch]
    ELSE ch

lower_char(ch) ==
    IF isupper_char(ch)
    THEN LowerLetters[CHOOSE i \in 1..Len(UpperLetters) : UpperLetters[i] = ch]
    ELSE ch

\* str.upper()
upper(v) == [i \in 1..Len(v) |-> upper_char(v[i])]

\* str.capitalize(): the first character upper case, the others lower case.
capitalize(v) ==
    [i \in 1..Len(v) |-> IF i = 1 THEN upper_char(v[i]) ELSE lower_char(v[i])]

\* str.title(): a letter that follows a letter lower case, any other letter
\* upper case.
title(v) ==
    [i \in 1..Len(v) |->
        IF i > 1 /\ (islower_char(v[i - 1]) \/ isupper_char(v[i - 1]))
        THEN lower_char(v[i])
        ELSE upper_char(v[i])]

\* str.isupper(): some cased character, and none of them lower case.
isupper(v) ==
    /\ \E i \in 1..Len(v) : isupper_char(v[i])
    /\ \A i \in 1..Len(v) : ~ islower_char(v[i])

ROOT == << "R", "O", "O", "T" >>
CONTENT == << "C", "O", "N", "T", "E", "N", "T" >>

\* The types and the names of the entries of a stored context path.
PathTypes == {ROOT, << "c", "o", "n", "t", "e", "n", "t" >>, << "t", "i", "t" >>,
              << "S", "E", "C" >>, << >>}
PathNames == {<< "I" >>, << "S", "E", "I" >>, << "s", "e", "i" >>}
PathItems == {[type |-> t, name |-> n] : t \in PathTypes, n \in PathNames}

\* The filter of format_context_path without upper().
is_structural_case_sensitive(item) == item.type \in {ROOT, CONTENT}

\* format_context_path: item.get("type", "").upper() in ("ROOT", "CONTENT")
is_structural(item) == upper(item.type) \in {ROOT, CONTENT}

\* format_context_path: one formatted item.
format_item(item) ==
    LET item_type == capitalize(item.type)
        item_name == IF isupper(item.name) /\ Len(item.name) > 1
                     THEN title(item.name) ELSE item.name IN
    item_type \o << " " >> \o item_name

RECURSIVE join(_)
\* ", ".join(items)
join(items) ==
    IF items = << >> THEN << >>
    ELSE IF Len(items) = 1 THEN items[1]
    ELSE items[1] \o << ",", " " >> \o join(Tail(items))

\* list(reversed(v))
reversed(v) == [i \in 1..Len(v) |-> v[Len(v) + 1 - i]]

\* format_context_path(context_path)
format_context_path(context_path) ==
    IF context_path = << >> THEN << >>
    ELSE LET NotStructural(item) == ~ is_structural(item)
             filtered == SelectSeq(context_path, NotStructural) IN
         IF filtered = << >> THEN << >>
         ELSE LET reversed_path == reversed(filtered) IN
              join([i \in 1..Len(reversed_path) |-> format_item(reversed_path[i])])

\* format_context_path called with a stored context path.
format_context_path_call ==
    /\ stored.kind = "context_path"
    /\ last' = [op |-> "format_context_path",
                text |-> format_context_path(stored.context_path)]
    /\ UNCHANGED << store, tokens, chatVars, balance0, require_auth, stored >>

\* ------------------------------------------------------------ specification

\* The graph store is not asked for anything.
NothingStored == [kind |-> "none"]

\* The user and conversation stores and the requests when the server starts.
InitServer ==
    /\ \E b \in 0..MaxTokens : balance = [u \in Users |-> b]
    /\ balance0 = balance
    /\ is_active \in {f \in [Users -> BOOLEAN] : f["u1"]}
    /\ tokens \in {{}, Users}
    /\ owner = [c \in ConvIds |->
                   IF c = "c1" THEN "u1" ELSE IF c = "c2" THEN "u2" ELSE NoUser]
    /\ msgs = [c \in ConvIds |->
                   IF c = "c1" THEN Turn("u1") ELSE IF c = "c2" THEN Turn("u2") ELSE << >>]
    /\ used = {"c1", "c2"}
    /\ pc = [r \in Reqs |-> "idle"]
    /\ req = [r \in Reqs |-> [user |-> NoUser, cid |-> NoConv]]
    /\ balRead = [r \in Reqs |-> 0]
    /\ achatCalls = [r \in Reqs |-> 0]
    /\ consumeCalls = [r \in Reqs |-> 0]
    /\ lookups = [r \in Reqs |-> 0]
    /\ ownerSeen = [r \in Reqs |-> NoUser]
    /\ deducted = [r \in Reqs |-> 0]
    /\ result = [r \in Reqs |-> [kind |-> "none"]]
    /\ resp = [r \in Reqs |-> NoResp]
    /\ last = [op |-> "none"]

\* The stores and the requests when the server starts.
InitStore == InitServer /\ stored = NothingStored

\* The server with the authenticated routes mounted.
Init == InitStore /\ require_auth = TRUE

\* The server with either variant of the chat routes mounted.
InitVariants == InitStore /\ require_auth \in BOOLEAN

\* The non-chat routes of auth_endpoints.py and chat_endpoints.py.
NextRoutes ==
    \/ \E name \in LoginNames, pw \in LoginPasswords : login(name, pw)
    \/ \E u \in Users, cid \in Nameable : get_conversation(u, cid)
    \/ \E u \in Users, cid \in Nameable : delete_conversation(u, cid)
    \/ \E u \in Users, cid \in Nameable : clear_conversation(u, cid)
    \/ \E u \in Users : list_conversations(u)
    \/ \E uid \in Users \cup StaleTokens : get_current_user(uid)

\* The steps of the chat requests in flight.
NextChat ==
    \/ \E r \in Reqs, u \in Users, cid \in Nameable \cup {NoConv} : chat_check_balance(r, u, cid)
    \/ \E r \in Reqs : chat_check_owner(r)
    \/ \E r \in Reqs, shape \in BOOLEAN : achat_returns(r, shape)
    \/ \E r \in Reqs : chat_except(r)
    \/ \E r \in Reqs : chat_consume_and_respond(r)

\* The steps of one chat request.
NextChatOne ==
    \/ \E u \in Users, cid \in Nameable \cup {NoConv} : chat_check_balance(1, u, cid)
    \/ chat_check_owner(1)
    \/ \E shape \in BOOLEAN : achat_returns(1, shape)
    \/ chat_except(1)
    \/ chat_consume_and_respond(1)

\* The routes, called in any order around one chat request.
SpecRoutes == Init /\ [][NextRoutes \/ NextChatOne]_vars

\* Concurrent chat requests.
Spec == Init /\ [][NextChat]_vars

\* The unauthenticated routes, mounted when require_auth is off, called in
\* any order around one chat request.
NextApi ==
    \/ \E cid \in Nameable : api_get_conversation(cid)
    \/ \E cid \in Nameable : api_delete_conversation(cid)
    \/ \E cid \in Nameable : api_clear_conversation(cid)
    \/ \E cid \in Nameable \cup {NoConv} : api_chat_call(1, cid)
    \/ \E shape \in BOOLEAN : api_achat_returns(1, shape)
    \/ api_chat_except(1)
    \/ api_chat_respond(1)

\* The authenticated steps, taken when the configuration mounts them.
NextAuth ==
    /\ require_auth
    /\ (NextRoutes \/ NextChatOne)

\* The configuration mounts one variant of the chat routes, never both.
NextVariants ==
    \/ NextAuth
    \/ NextApi

\* The server under either configuration.
SpecVariants == InitVariants /\ [][NextVariants]_vars

\* The steps of the search requests, one request after the other.
NextSearch ==
    \/ \E raw \in Queries : semantic_search_validate(raw)
    \/ \E outcome \in EmbeddingOutcomes : semantic_search_embed(outcome)
    \/ \E outcome \in SearchOutcomes : semantic_search_vector_search(outcome)
    \/ semantic_search_respond

\* Search requests.
SpecSearch == Init /\ [][NextSearch]_vars

\* The outcomes of vector_search by kind: it raises, it returns no hit, a
\* hit that can be answered, a hit that cannot.
SearchOutcomeKinds ==
    {[kind |-> "raises"]} \cup
    {[kind |-> "hits", raw_results |-> h] :
        h \in {<< >>, << [article_id |-> IntId(7)] >>, << [article_id |-> NoId] >>}}

\* One chat request and search requests, every call of a collaborator with
\* each of its outcomes.
NextCalls ==
    \/ NextChatOne
    \/ \E raw \in {<< " " >>, << "a" >>} : semantic_search_validate(raw)
    \/ \E outcome \in EmbeddingOutcomes : semantic_search_embed(outcome)
    \/ \E outcome \in SearchOutcomeKinds : semantic_search_vector_search(outcome)
    \/ semantic_search_respond

\* The calls the handlers make to their collaborators.
SpecCalls == Init /\ [][NextCalls]_vars

\* What the graph store may hold for one article request.
StoredValues ==
    {[kind |-> "versions", versions |-> v] : v \in SeqUpTo(Versions, MaxVersions)}
    \cup {[kind |-> "date", date_str |-> d] : d \in DateValues}
    \cup {[kind |-> "context_path", context_path |-> c] :
              c \in SeqUpTo(PathItems, MaxPathLen)}

\* The server with the graph store holding any of these.
InitGraph ==
    /\ InitServer
    /\ require_auth = TRUE
    /\ tokens = {}
    /\ balance = [u \in Users |-> MaxTokens]
    /\ is_active = [u \in Users |-> TRUE]
    /\ stored \in StoredValues

\* The article requests and the formatting functions.
NextGraph ==
    \/ get_article_versions
    \/ format_date_call
    \/ format_context_path_call

\* Article requests.
SpecGraph == InitGraph /\ [][NextGraph]_vars

\* ------------------------------------------------------------------ claims

RECURSIVE SpentBy(_, _)
\* The tokens taken from user u by the chat requests 1..n.
SpentBy(u, n) ==
    IF n = 0 THEN 0
    ELSE (IF req[n].user = u THEN deducted[n] ELSE 0) + SpentBy(u, n - 1)

\* C1: a chat request that read a balance <= 0 at its start has ended with
\* 402 InsufficientTokens, and neither achat nor consume_tokens was called
\* for it.
C1_NoBalanceNoWork ==
    \A r \in Reqs :
        (pc[r] # "idle" /\ balRead[r] <= 0) =>
            /\ pc[r] = "done"
            /\ resp[r] = InsufficientTokens
            /\ resp[r].status = 402
            /\ achatCalls[r] = 0
            /\ consumeCalls[r] = 0
            /\ deducted[r] = 0

C1_Witness ==
    \E r \in Reqs :
        /\ pc[r] = "done"
        /\ balRead[r] = 0
        /\ resp[r].status = 402
        /\ req[r].user \in Users

\* C2: a finished chat request whose achat call returned a result has taken
\* exactly 1 token from its caller with one consume_tokens call; one whose
\* achat call raised has taken none; and a user's balance is the initial
\* balance less what the user's requests have taken, so a request that
\* failed leaves the balance as it found it.
C2_DeductOnSuccessOnly ==
    /\ \A r \in Reqs :
        pc[r] = "done" =>
            /\ result[r].kind = "returned" => (deducted[r] = 1 /\ consumeCalls[r] = 1)
            /\ result[r].kind = "raised" => (deducted[r] = 0 /\ consumeCalls[r] = 0)
    /\ \A u \in Users : balance[u] = balance0[u] - SpentBy(u, MaxReq)

C2_Witness ==
    \E r1, r2 \in Reqs :
        /\ pc[r1] = "done" /\ result[r1].kind = "returned"
        /\ balance[req[r1].user] = balance0[req[r1].user] - 1
        /\ pc[r2] = "done" /\ result[r2].kind = "raised"
        /\ req[r2].user # req[r1].user
        /\ balance[req[r2].user] = balance0[req[r2].user]

\* C3: a chat request of a caller with a positive balance that names a
\* conversation the caller does not own, whether it belongs to another user
\* or has no record, gets the same 404 ConversationNotFound, and achat is
\* not called for it.
C3_NotOwnedIsNotFound ==
    \A r \in Reqs :
        (/\ pc[r] \notin {"idle", "balance_ok"}
         /\ balRead[r] > 0
         /\ req[r].cid # NoConv
         /\ ownerSeen[r] # req[r].user) =>
            /\ pc[r] = "done"
            /\ resp[r] = ConversationNotFound(req[r].cid)
            /\ achatCalls[r] = 0

\* C4: available_tokens is never negative.
C4_BalanceNonNegative == \A u \in Users : balance[u] >= 0

\* A login attempt that fails before the active flag is looked at: the
\* username resolves to no user, or the password does not verify.
BadCredentials(name, pw) ==
    \/ get_by_username(name) = NoUser
    \/ ~ verify_password(get_by_username(name), pw)

InvalidCredentials == HttpError(401, "Unauthorized", "Invalid username or password")

\* C5: login with an existing username and a wrong password and login with
\* a username that does not exist return the same status 401 and the same
\* body (Unauthorized, "Invalid username or password"), and neither issues a
\* token.
C5_SameAnswerForUnknownAndWrong ==
    /\ \A known, unknown \in LoginNames, pw1, pw2 \in LoginPasswords :
        (/\ get_by_username(known) # NoUser
         /\ ~ verify_password(get_by_username(known), pw1)
         /\ get_by_username(unknown) = NoUser) =>
            /\ login_response(known, pw1) = login_response(unknown, pw2)
            /\ login_response(known, pw1) = InvalidCredentials
            /\ "access_token" \notin DOMAIN login_response(unknown, pw2)
    /\ (last.op = "login" /\ BadCredentials(last.name, last.pw)) =>
            /\ last.resp = InvalidCredentials
            /\ last.tokens_after = last.tokens_before

C5_Witness ==
    /\ last.op = "login"
    /\ get_by_username(last.name) # NoUser
    /\ ~ verify_password(get_by_username(last.name), last.pw)
    /\ last.resp.status = 401

C7_TokenOnlyForValidActiveUser ==
    [][ \A name \in LoginNames, pw \in LoginPasswords :
          login(name, pw) =>
            LET user == get_by_username(name)
                r == last'.resp IN
            IF user # NoUser /\ verify_password(user, pw) /\ is_active[user]
            THEN /\ r.status = 200
                 /\ r.access_token = user
                 /\ r.user_id = user
                 /\ r.username = username[user]
                 /\ r.available_tokens = balance[user]
                 /\ tokens' = tokens \cup {user}
            ELSE /\ r.status = 401
                 /\ r.error = "Unauthorized"
                 /\ "access_token" \notin DOMAIN r
                 /\ tokens' = tokens ]_vars

C7_Witness ==
    /\ last.op = "login"
    /\ last.resp.status = 200
    /\ last.resp.user_id = get_by_username(last.name)
    /\ last.resp.user_id \in last.tokens_after
    /\ last.resp.available_tokens = balance0[last.resp.user_id] - 1

\* C8: get_conversation(id) by caller u returns the conversation only when
\* it exists and u owns it; for a conversation of another user the response
\* is the 404 ConversationNotFound it would be were the conversation absent,
\* and it carries no messages.
C8_GetOnlyOwnConversation ==
    /\ \A u \in Users, cid \in ConvIds :
        LET r == get_conversation_response(cid, u, owner, msgs)
            absent == get_conversation_response(cid, u,
                          [owner EXCEPT ![cid] = NoUser], [msgs EXCEPT ![cid] = << >>]) IN
        /\ r.status = 200 <=> owner[cid] = u
        /\ r.status = 200 => (r.id = cid /\ r.messages = msgs[cid])
        /\ owner[cid] # u =>
               /\ r = absent
               /\ r = ConversationNotFound(cid)
               /\ "messages" \notin DOMAIN r
    /\ (last.op = "get" /\ last.resp.status = 200) =>
            \A i \in 1..Len(last.resp.messages) :
                last.resp.messages[i].content = last.user

C8_Witness ==
    /\ last.op = "get"
    /\ last.resp = ConversationNotFound(last.cid)
    /\ owner[last.cid] \in Users \ {last.user}
    /\ msgs[last.cid] # << >>

\* C9: delete_conversation(id) and clear_conversation(id) by a caller who
\* does not own id (another user's conversation, or no record) return 404 and
\* leave every conversation record and message sequence as it was; a record
\* is removed only by a delete request of its owner and a message sequence is
\* emptied only by a clear request of its owner.
C9_OnlyOwnerDeletesOrClears ==
    [][ /\ \A u \in Users, cid \in ConvIds :
            ((delete_conversation(u, cid) \/ clear_conversation(u, cid)) /\ owner[cid] # u) =>
                /\ last'.resp = ConversationNotFound(cid)
                /\ owner' = owner
                /\ msgs' = msgs
        /\ \A c \in ConvIds :
            (owner[c] # NoUser /\ owner'[c] = NoUser) =>
                /\ last'.op = "delete" /\ last'.cid = c
                /\ last'.user = owner[c] /\ last'.resp.status = 200
        /\ \A c \in ConvIds :
            (owner'[c] # NoUser /\ msgs[c] # << >> /\ msgs'[c] = << >>) =>
                /\ last'.op = "clear" /\ last'.cid = c
                /\ last'.user = owner[c] /\ last'.resp.status = 200 ]_vars

C9_Witness ==
    /\ last.op \in {"delete", "clear"}
    /\ last.resp.status = 404
    /\ owner[last.cid] \in Users \ {last.user}
    /\ msgs[last.cid] # << >>

\* C10: when clear_conversation(id) of the owner has succeeded, the
\* conversation still has its record and its owner, and get_conversation(id)
\* by the owner then answers 200 with the same id and no messages.
C10_ClearKeepsConversation ==
    [][ \A u \in Users, cid \in ConvIds :
          (clear_conversation(u, cid) /\ last'.resp.status = 200) =>
            LET g == get_conversation_response(cid, u, owner', msgs') IN
            /\ owner[cid] = u
            /\ owner'[cid] = u
            /\ g.status = 200
            /\ g.id = cid
            /\ g.messages = << >> ]_vars

C10_Witness ==
    /\ last.op = "clear"
    /\ last.resp.status = 200
    /\ owner[last.cid] = last.user
    /\ msgs[last.cid] = << >>
    /\ get_conversation_response(last.cid, last.user, owner, msgs).status = 200

\* A conversation id whose record a delete request has removed.
Deleted(c) == c \in used /\ owner[c] = NoUser

\* C11: once delete_conversation(id) has succeeded, id never has a record
\* again, and every later get_conversation(id), delete_conversation(id) and
\* clear_conversation(id), by any caller of either variant, answers 404
\* ConversationNotFound; a delete or clear that answers 404 changes nothing
\* but the response.
C11_DeletedStaysNotFound ==
    [][ /\ \A c \in ConvIds :
            Deleted(c) =>
                /\ Deleted(c)'
                /\ (last' # last /\ last'.op \in {"get", "delete", "clear"}
                        /\ last'.cid = c) =>
                       /\ last'.resp.status = 404
                       /\ last'.resp.error = "ConversationNotFound"
        /\ (last' # last /\ last'.op \in {"delete", "clear"}
                /\ last'.resp.status = 404) =>
               UNCHANGED << store, tokens, chatVars, balance0, require_auth, stored >> ]_vars

C11_Witness ==
    /\ require_auth
    /\ last.op \in {"delete", "clear"}
    /\ Deleted(last.cid)
    /\ last.user = "u1" /\ last.cid = "c1"
    /\ last.resp.status = 404

\* C12: in both variants of chat, a request whose achat call raised has ended
\* with 500 ChatProcessingError, the response carrying the description of the
\* exception that was raised.
C12_OrchestratorFailureIs500 ==
    \A r \in Reqs :
        result[r].kind = "raised" =>
            /\ pc[r] = "done"
            /\ resp[r].status = 500
            /\ resp[r].error = "ChatProcessingError"
            /\ resp[r].details = result[r].error

C12_Witness ==
    /\ ~ require_auth
    /\ result[1].kind = "raised"
    /\ resp[1] = ChatProcessingError("generation failed")

\* C13: the authenticated chat runs balance check, ownership check, achat,
\* consume_tokens in that order: a request that read a balance <= 0 is
\* answered 402 InsufficientTokens without any owner lookup, whatever
\* conversation it names; the owner is looked up only after a positive
\* balance was read, achat is called only after the owner lookup of a request
\* that names a conversation, and consume_tokens only after achat returned.
C13_StepsInOrder ==
    \A r \in Reqs :
        /\ (pc[r] # "idle" /\ balRead[r] <= 0) =>
               (resp[r] = InsufficientTokens /\ lookups[r] = 0)
        /\ lookups[r] > 0 => balRead[r] > 0
        /\ achatCalls[r] > 0 =>
               /\ balRead[r] > 0
               /\ req[r].cid # NoConv => lookups[r] = 1
        /\ consumeCalls[r] > 0 =>
               (achatCalls[r] = 1 /\ result[r].kind = "returned")

C13_Witness ==
    \E r \in Reqs :
        /\ pc[r] = "done" /\ balRead[r] <= 0
        /\ req[r].cid \in ConvIds
        /\ owner[req[r].cid] \in Users \ {req[r].user}
        /\ resp[r].status = 402
        /\ lookups[r] = 0
        /\ \E r2 \in Reqs : consumeCalls[r2] = 1 /\ lookups[r2] = 1

\* C14: with the unauthenticated variant mounted no balance changes, and a
\* chat request has called achat once with the conversation id it supplied,
\* whoever owns that conversation and whatever the balances are: it is never
\* answered 402 or 404, no owner is looked up and consume_tokens is never
\* called.
C14_NoPolicyWithoutAuth ==
    ~ require_auth =>
        /\ balance = balance0
        /\ \A r \in Reqs :
            /\ consumeCalls[r] = 0 /\ deducted[r] = 0 /\ lookups[r] = 0
            /\ pc[r] # "idle" =>
                   /\ achatCalls[r] = 1
                   /\ resp[r].status \notin {402, 404}

C14_Witness ==
    /\ ~ require_auth
    /\ pc[1] = "done"
    /\ req[1].cid = "c2" /\ owner["c2"] = "u2"
    /\ result[1].kind = "returned" /\ result[1].conversation_id = "c2"
    /\ resp[1].status = 200
    /\ Len(msgs["c2"]) = 4
    /\ \A u \in Users : balance[u] = 0

\* The ids of the summaries of a list_conversations response, in order.
SummaryIds(r) == [i \in 1..Len(r.conversations) |-> r.conversations[i].id]

\* C15: over every store the routes reach, list_conversations of caller u
\* answers one summary for each row the store lists for u, in the store's
\* order; the ids listed are exactly the conversations u owns, each once, and
\* total is the number of summaries.
C15_ListsExactlyOwn ==
    \A u \in Users :
        LET r == list_conversations_response(u, owner, msgs)
            rows == repo_list_conversations(u, owner, msgs)
            ids == SummaryIds(r) IN
        /\ r.status = 200
        /\ Len(r.conversations) = Len(rows)
        /\ \A i \in 1..Len(rows) :
               /\ r.conversations[i].id = rows[i].id
               /\ r.conversations[i].message_count = rows[i].message_count
               /\ r.conversations[i].preview = rows[i].preview
        /\ {ids[i] : i \in 1..Len(ids)} = {c \in ConvIds : owner[c] = u}
        /\ \A i, j \in 1..Len(ids) : ids[i] = ids[j] => i = j
        /\ r.total = Len(r.conversations)

C15_Witness ==
    /\ last.op = "list" /\ last.user = "u1"
    /\ last.resp = list_conversations_response("u1", owner, msgs)
    /\ SummaryIds(last.resp) = << "c1", "c3" >>
    /\ last.resp.total = 2
    /\ owner["c2"] = "u2"

\* C16: a get_current_user request changes nothing but its response; for a
\* token whose user id has no user in the store the response is 401
\* Unauthorized, and for a token of a stored user it is 200 with that user's
\* id, username and present available_tokens.
C16_MeResolvesUser ==
    [][ (last' # last /\ last'.op = "me") =>
            LET uid == last'.user IN
            /\ UNCHANGED << store, tokens, chatVars, balance0, require_auth, stored >>
            /\ uid \notin Users =>
                   /\ last'.resp.status = 401
                   /\ last'.resp.error = "Unauthorized"
            /\ uid \in Users =>
                   last'.resp = [status |-> 200, id |-> uid,
                                 username |-> username[uid],
                                 available_tokens |-> balance[uid]] ]_vars

C16_Witness ==
    /\ last.op = "me"
    /\ last.user = Removed
    /\ last.resp.status = 401
    /\ \E u \in Users : balance[u] < balance0[u]

\* C17: a step of any route changes the available_tokens of a user only as
\* the end of an authenticated chat request of that user that answers 200,
\* and then by taking exactly one token: no balance rises, and no request
\* changes the balance of a user other than its caller.
C17_OnlySuccessfulChatSpends ==
    [][ \A u \in Users :
          balance'[u] # balance[u] =>
              /\ balance'[u] = balance[u] - 1
              /\ \E r \in Reqs :
                    /\ req[r].user = u
                    /\ pc[r] # "done" /\ pc'[r] = "done"
                    /\ resp'[r].status = 200 ]_vars

\* A query with no character other than whitespace (the empty one included).
Blank(raw) == \A i \in 1..Len(raw) : raw[i] = " "

\* q is raw without its leading and trailing whitespace.
StrippedOf(q, raw) ==
    /\ q # << >> /\ Head(q) # " " /\ q[Len(q)] # " "
    /\ \E i \in 0..Len(raw), j \in 0..Len(raw) :
          /\ i + Len(q) + j = Len(raw)
          /\ SubSeq(raw, i + 1, i + Len(q)) = q
          /\ \A k \in (1..i) \cup ((Len(raw) - j + 1)..Len(raw)) : raw[k] = " "

\* C18: a search request whose query is empty or only whitespace is refused
\* with a validation error, and neither get_embedding nor vector_search is
\* called for it; the query of an accepted request is the submitted one
\* without its leading and trailing whitespace, and that value is what
\* get_embedding receives and what the response echoes.
C18_BlankQueryRejected ==
    last.op = "search" =>
        /\ Blank(last.raw) =>
               /\ ~ last.accepted /\ last.pc = "done"
               /\ last.resp = ValidationError
               /\ last.embedCalls = 0 /\ last.searchCalls = 0
        /\ last.accepted => StrippedOf(last.query, last.raw)
        /\ last.embedCalls > 0 => last.embedded = last.query
        /\ last.resp.status = 200 => last.resp.query = last.query

C18_Witness ==
    /\ last.op = "search"
    /\ last.raw = << " ", " " >>
    /\ last.resp = ValidationError
    /\ last.embedCalls = 0 /\ last.searchCalls = 0

\* The value of a decimal digit.
DigitValue(ch) == CHOOSE d \in 0..9 : Digit(d) = ch

RECURSIVE DecimalValue(_)
\* The number a sequence of decimal digits denotes.
DecimalValue(ds) ==
    IF ds = << >> THEN 0
    ELSE 10 * DecimalValue(SubSeq(ds, 1, Len(ds) - 1)) + DigitValue(ds[Len(ds)])

\* ds is the decimal numeral of n.
NumeralOf(ds, n) ==
    /\ ds # << >>
    /\ \A i \in 1..Len(ds) : \E d \in 0..9 : Digit(d) = ds[i]
    /\ Len(ds) > 1 => ds[1] # "0"
    /\ DecimalValue(ds) = n

\* C19: when get_embedding and vector_search have succeeded and every hit
\* has an int article_id, the response is 200 with one result per hit in the
\* order of the hits, the article_id of each result the decimal numeral of
\* the hit's id, and total_results the number of results.
C19_OneResultPerHit ==
    [][ ( /\ last.op = "search" /\ last.pc = "mapping"
          /\ last'.op = "search" /\ last'.pc = "done"
          /\ \A i \in 1..Len(last.raw_results) :
                 isinstance_int(last.raw_results[i].article_id) ) =>
            /\ last'.resp.status = 200
            /\ Len(last'.resp.results) = Len(last.raw_results)
            /\ \A i \in 1..Len(last.raw_results) :
                   NumeralOf(last'.resp.results[i].article_id,
                             last.raw_results[i].article_id.v)
            /\ last'.resp.total_results = Len(last'.resp.results) ]_vars

C19_Witness ==
    /\ last.op = "search" /\ last.pc = "done"
    /\ last.raw_results = << [article_id |-> IntId(12)], [article_id |-> IntId(7)] >>
    /\ last.resp.status = 200
    /\ last.resp.results = << [article_id |-> << "1", "2" >>],
                              [article_id |-> << "7" >>] >>
    /\ last.resp.total_results = 2

\* A step of the search request in hand from stage "from" to its end.
SearchEnds(from) ==
    /\ last.op = "search" /\ last.pc = from
    /\ last'.op = "search" /\ last'.pc = "done"

\* C20: a search request that ends at get_embedding is answered 500
\* EmbeddingGenerationError and vector_search was not called for it; one that
\* ends at vector_search is answered 500 DatabaseError; and a request is
\* answered 500 InternalServerError only when it ends in the loop that
\* builds the results.
C20_FailureTagsKept ==
    [][ /\ SearchEnds("embedding") =>
               /\ last'.resp.status = 500
               /\ last'.resp.error = "EmbeddingGenerationError"
               /\ last'.embedCalls = 1 /\ last'.searchCalls = 0
        /\ SearchEnds("searching") =>
               /\ last'.resp.status = 500
               /\ last'.resp.error = "DatabaseError"
               /\ last'.searchCalls = 1
        /\ ( /\ last' # last /\ last'.op = "search"
             /\ last'.resp.status = 500
             /\ last'.resp.error = "InternalServerError" ) =>
               SearchEnds("mapping") ]_vars

C20_Witness ==
    /\ last.op = "search" /\ last.pc = "done"
    /\ last.embedCalls = 1 /\ last.searchCalls = 0
    /\ last.resp.status = 500
    /\ last.resp.error = "EmbeddingGenerationError"

\* C21: when vector_search has returned and some hit has an article_id that
\* is not an int (a str, or None for a missing key), the request ends with
\* 500 InternalServerError and the response carries no result list, however
\* many valid hits come before that one.
C21_BadIdFailsWholeRequest ==
    [][ ( /\ SearchEnds("mapping")
          /\ \E i \in 1..Len(last.raw_results) :
                 ~ isinstance_int(last.raw_results[i].article_id) ) =>
            /\ last'.resp.status = 500
            /\ last'.resp.error = "InternalServerError"
            /\ "results" \notin DOMAIN last'.resp ]_vars

C21_Witness ==
    /\ last.op = "search" /\ last.pc = "done"
    /\ last.raw_results = << [article_id |-> IntId(7)], [article_id |-> NoId] >>
    /\ last.resp.status = 500
    /\ last.resp.error = "InternalServerError"

\* C22: get_article_versions answers 404 exactly when the adapter returns no
\* version; otherwise it answers one entry per version in the adapter's
\* order, total_versions their number, is_current_version of an entry true
\* exactly when validity_end of its version is None, so that as many entries
\* are tagged current as versions lack validity_end, be that none, one or
\* several.
C22_VersionsAsStored ==
    last.op = "versions" =>
        LET vs == stored.versions
            r == last.resp IN
        /\ r.status = 404 <=> vs = << >>
        /\ vs # << >> =>
            /\ r.status = 200
            /\ Len(r.versions) = Len(vs)
            /\ r.total_versions = Len(vs)
            /\ \A i \in 1..Len(vs) :
                   /\ NumeralOf(r.versions[i].node_id, vs[i].article_id)
                   /\ r.versions[i].is_current_version <=> vs[i].validity_end = None
            /\ Cardinality({i \in 1..Len(vs) : r.versions[i].is_current_version})
                   = Cardinality({i \in 1..Len(vs) : vs[i].validity_end = None})

C22_Witness ==
    /\ last.op = "versions"
    /\ last.resp.status = 200
    /\ last.resp.total_versions = 3
    /\ stored.versions[1].article_id = 12 /\ stored.versions[2].article_id = 7
    /\ stored.versions[2].validity_end = Str(<< >>)
    /\ Cardinality({i \in 1..3 : last.resp.versions[i].is_current_version}) = 2

\* C23: format_date turns a string of 8 characters c1..c8 into
\* c1c2c3c4-c5c6-c7c8 and returns None, the empty string and a string of any
\* other length as they are; the function of the article endpoints and the
\* one of the search endpoints return the same value.
C23_FormatDate ==
    last.op = "format_date" =>
        LET d == stored.date_str
            out == last.article IN
        /\ last.search = out
        /\ (d = None \/ Len(d.v) # 8) => out = d
        /\ (d # None /\ Len(d.v) = 8) =>
               /\ out # None /\ Len(out.v) = 10
               /\ \A i \in 1..4 : out.v[i] = d.v[i]
               /\ out.v[5] = "-"
               /\ \A i \in 5..6 : out.v[i + 1] = d.v[i]
               /\ out.v[8] = "-"
               /\ \A i \in 7..8 : out.v[i + 2] = d.v[i]

C23_Witness ==
    /\ last.op = "format_date"
    /\ stored.date_str = Str(<< "1", "x", "1", "1", "x", "1", "1", "x" >>)
    /\ last.article = Str(<< "1", "x", "1", "1", "-", "x", "1", "-", "1", "x" >>)
    /\ last.search = last.article

RECURSIVE SplitItems(_, _)
\* The items of a text joined by ", ", cur being the item read so far.
SplitItems(text, cur) ==
    IF text = << >> THEN << cur >>
    ELSE IF Len(text) >= 2 /\ text[1] = "," /\ text[2] = " "
    THEN << cur >> \o SplitItems(SubSeq(text, 3, Len(text)), << >>)
    ELSE SplitItems(Tail(text), Append(cur, Head(text)))

\* The items of the text format_context_path returned: none for "".
ItemsOf(text) == IF text = << >> THEN << >> ELSE SplitItems(text, << >>)

\* The entries of a context path that are neither ROOT nor CONTENT, whatever
\* the case of their type.
Retained(context_path) ==
    LET Kept(item) == upper(item.type) \notin {ROOT, CONTENT} IN
    SelectSeq(context_path, Kept)

C25_NoRetry ==
    /\ \A r \in Reqs : achatCalls[r] <= 1 /\ consumeCalls[r] <= 1
    /\ last.op = "search" => (last.embedCalls <= 1 /\ last.searchCalls <= 1)

C25_Witness ==
    /\ pc[1] = "done" /\ result[1].kind = "raised"
    /\ achatCalls[1] = 1 /\ consumeCalls[1] = 0
    /\ last.op = "search" /\ last.pc = "done"
    /\ last.resp.status = 500 /\ last.resp.error = "DatabaseError"
    /\ last.embedCalls = 1 /\ last.searchCalls = 1

\* The chat requests of user u for which achat was invoked and did not
\* raise.
Invoked(u) ==
    {r \in Reqs : req[r].user = u /\ achatCalls[r] > 0 /\ result[r].kind # "raised"}

\* C26: for a user who started with balance n, achat is invoked for at most
\* n chat requests (those whose achat call raised, which cost nothing, left
\* aside), however the user's requests interleave.
C26_InvocationsWithinBalance ==
    \A u \in Users : Cardinality(Invoked(u)) <= balance0[u]

\* C27: a chat request that has ended answered 200 exactly when one token
\* was taken from its caller for it, and one that ended with 402, 404 or 500
\* took none.
C27_StatusAgreesWithDeduction ==
    \A r \in Reqs :
        pc[r] = "done" =>
            /\ resp[r].status = 200 <=> deducted[r] = 1
            /\ resp[r].status \in {402, 404, 500} => deducted[r] = 0

\* The chat requests that named a conversation and had its owner looked up.
Looked == {r \in Reqs : req[r].cid # NoConv /\ lookups[r] > 0}

\* C28: achat is never invoked for a caller with a conversation id whose
\* owner, when the handler looked it up, was another user, so every turn
\* stored in a conversation that has an owner was written by that owner; and
\* a request whose id had no owner record is forwarded to achat, which acts
\* for the caller: the conversation it answers with belongs to the caller.
C28_NoAppendToForeignConversation ==
    /\ \A r \in Looked :
           achatCalls[r] > 0 => ownerSeen[r] \in {NoUser, req[r].user}
    /\ \A c \in ConvIds :
           owner[c] # NoUser =>
               \A i \in 1..Len(msgs[c]) : msgs[c][i].content = owner[c]
    /\ \A r \in Looked :
           ownerSeen[r] = NoUser =>
               /\ achatCalls[r] = 1
               /\ result[r].kind = "returned" =>
                      /\ result[r].conversation_id # req[r].cid
                      /\ owner[result[r].conversation_id] \in {NoUser, req[r].user}

\* A request naming another user's conversation was refused before achat,
\* and one naming an id without an owner record got a new conversation of
\* the caller's.
C28_Witness ==
    \E r, q \in Reqs :
        /\ r \in Looked /\ ownerSeen[r] \in Users \ {req[r].user}
        /\ pc[r] = "done" /\ resp[r].status = 404 /\ achatCalls[r] = 0
        /\ q \in Looked /\ ownerSeen[q] = NoUser
        /\ result[q].kind = "returned"
        /\ owner[result[q].conversation_id] = req[q].user

\* The status a chat request ends with, from what it read of the balance and
\* of the owner and from how achat ended.
ChatStatus(bal, cid, o, u, res) ==
    IF bal <= 0 THEN 402
    ELSE IF cid # NoConv /\ o # NoUser /\ o # u THEN 404
    ELSE IF res.kind = "returned" /\ res.citations_ok THEN 200
    ELSE 500

\* C29: only login looks at the active flag.  Whether its holder is active
\* or not, a token is answered 200 by get_current_user when the user exists
\* and by list_conversations, 200 or 404 by the conversation routes
\* according to ownership alone, and by chat according to the balance, the
\* ownership and the outcome of achat alone; and login answers "Account is
\* disabled" exactly when the username resolves to an inactive user whose
\* password verified.
C29_ActiveFlagOnlyAtLogin ==
    [][ /\ (last' # last /\ last'.op = "me" /\ last'.user \in Users) =>
               last'.resp.status = 200
        /\ (last' # last /\ last'.op = "list") => last'.resp.status = 200
        /\ (last' # last /\ last'.op \in {"get", "delete", "clear"}) =>
               last'.resp.status =
                   IF last'.cid \in ConvIds /\ owner[last'.cid] = last'.user
                   THEN 200 ELSE 404
        /\ \A r \in Reqs :
               (pc[r] # "done" /\ pc'[r] = "done") =>
                   resp'[r].status =
                       ChatStatus(balRead'[r], req'[r].cid, ownerSeen'[r],
                                  req'[r].user, result'[r])
        /\ (last' # last /\ last'.op = "login") =>
               LET user == get_by_username(last'.name) IN
               (IF last'.resp.status = 401
                THEN last'.resp.message = "Account is disabled"
                ELSE FALSE)
               <=> (/\ user # NoUser
                    /\ verify_password(user, last'.pw)
                    /\ ~ is_active[user])
      ]_vars

\* An inactive user holding a token was answered 200 by chat and then by
\* get_current_user.
C29_Witness ==
    \E r \in Reqs :
        /\ pc[r] = "done" /\ resp[r].status = 200
        /\ ~ is_active[req[r].user]
        /\ last.op = "me" /\ last.user = req[r].user
        /\ last.resp.status = 200

====
